---- MODULE Spec2Model ----
(***************************************************************************)
(* A model of the terminal calculator in src/src/main.rs: the read /       *)
(* parse / evaluate loop of main, Expression::from_str followed statement  *)
(* by statement, Expression::evaluate, and Operation::from_str / fmt.      *)
(*                                                                         *)
(* A text is a sequence of characters; a character is a one-element        *)
(* string, or a name such as "u00F7" for a character outside ASCII, whose  *)
(* UTF-8 encoding is longer than one byte.                                 *)
(***************************************************************************)
EXTENDS Integers, Sequences, FiniteSets, TLC

(* ------------------------------------------------------------------ *)
(* Bounds of the model.                                               *)
(* ------------------------------------------------------------------ *)

\* Longest line enumerated over Alphabet.
MaxLen == 4

\* Longest token handed to Operation::from_str on its own.
MaxTokenLen == 2

(* ------------------------------------------------------------------ *)
(* Characters.                                                         *)
(* ------------------------------------------------------------------ *)

\* The radix of character.is_digit(10).
Radix == 10

AsciiDigits == {"0", "1", "2", "3", "4", "5", "6", "7", "8", "9"}

DigitValue(c) ==
    CASE c = "0" -> 0 [] c = "1" -> 1 [] c = "2" -> 2 [] c = "3" -> 3
      [] c = "4" -> 4 [] c = "5" -> 5 [] c = "6" -> 6 [] c = "7" -> 7
      [] c = "8" -> 8 [] c = "9" -> 9

OperatorChars == {"+", "-", "*", "/", "^"}

LowerLetters == {"a", "b", "c", "e", "f", "i", "n", "t", "x", "y"}
UpperLetters == {"A", "E", "F", "I", "N", "T", "X", "Y"}

\* White_Space characters: space, tab, line feed, U+3000 IDEOGRAPHIC SPACE.
WhitespaceChars == {" ", "\t", "\n", "u3000"}

\* U+00F7 DIVISION SIGN and U+0663 ARABIC-INDIC DIGIT THREE (a decimal digit
\* of Unicode, but no digit of radix 10 for char::is_digit).
OtherChars == {"u00F7", "u0663", "=", "_"}

Chars ==
    AsciiDigits \cup {"."} \cup OperatorChars \cup LowerLetters
        \cup UpperLetters \cup WhitespaceChars \cup OtherChars

\* char::len_utf8
LenUtf8(c) ==
    CASE c \in {"u00F7", "u0663"} -> 2
      [] c = "u3000" -> 3
      [] OTHER -> 1

\* char::is_whitespace
IsWhitespace(c) == c \in WhitespaceChars

\* char::is_digit(radix) for radix 10: the ASCII digits only.
IsDigit(c, radix) == c \in AsciiDigits /\ DigitValue(c) < radix

\* char::to_lowercase on the characters of Chars.
CharToLower(c) ==
    CASE c = "A" -> "a" [] c = "E" -> "e" [] c = "F" -> "f" [] c = "I" -> "i"
      [] c = "N" -> "n" [] c = "T" -> "t" [] c = "X" -> "x" [] c = "Y" -> "y"
      [] OTHER -> c

\* str::to_lowercase
ToLowercase(s) == [k \in 1..Len(s) |-> CharToLower(s[k])]

\* str::len, the length in bytes.
RECURSIVE ByteLen(_)
ByteLen(s) == IF s = <<>> THEN 0 ELSE LenUtf8(Head(s)) + ByteLen(Tail(s))

\* str::is_char_boundary
IsCharBoundary(s, b) == \E k \in 0..Len(s) : ByteLen(SubSeq(s, 1, k)) = b

\* &s[b..]: the characters from byte offset b on. Only used where
\* IsCharBoundary(s, b); anywhere else the slice panics.
SliceFrom(s, b) ==
    LET k == CHOOSE j \in 0..Len(s) : ByteLen(SubSeq(s, 1, j)) = b
    IN  SubSeq(s, k + 1, Len(s))

\* str::trim: leading and trailing whitespace removed.
RECURSIVE TrimStart(_)
TrimStart(s) ==
    IF s # <<>> /\ IsWhitespace(Head(s)) THEN TrimStart(Tail(s)) ELSE s

RECURSIVE TrimEnd(_)
TrimEnd(s) ==
    IF s # <<>> /\ IsWhitespace(s[Len(s)])
    THEN TrimEnd(SubSeq(s, 1, Len(s) - 1))
    ELSE s

Trim(s) == TrimEnd(TrimStart(s))

(* ------------------------------------------------------------------ *)
(* f64 values and <f64 as FromStr>::from_str.                          *)
(*                                                                     *)
(* A finite f64 is written by the shortest decimal that denotes it,    *)
(* mant * 10^exp with mant free of trailing zeros: literals of fewer   *)
(* than 16 significant digits denote different f64 values exactly when *)
(* their normalised decimals differ.                                   *)
(* ------------------------------------------------------------------ *)

NaN(neg) == [kind |-> "nan", neg |-> neg, mant |-> 0, exp |-> 0]
Infinity(neg) == [kind |-> "inf", neg |-> neg, mant |-> 0, exp |-> 0]

RECURSIVE StripZeros(_, _)
StripZeros(m, e) ==
    IF m = 0 THEN <<0, 0>>
    ELSE IF m % 10 = 0 THEN StripZeros(m \div 10, e + 1)
    ELSE <<m, e>>

RECURSIVE NumDigits(_)
NumDigits(m) == IF m < 10 THEN 1 ELSE 1 + NumDigits(m \div 10)

RECURSIVE Pow10(_)
Pow10(n) == IF n = 0 THEN 1 ELSE 10 * Pow10(n - 1)

\* The f64 nearest to (-1)^neg * mant * 10^exp. f64::MAX is
\* 1.7976931348623157e308: a decimal whose leading digit has an exponent
\* above 308, or of 308 with its first nine digits above 179769313, rounds
\* to infinity; one below the least subnormal 4.9e-324 rounds to zero.
Finite(neg, mant, exp) ==
    LET n  == StripZeros(mant, exp)
        m  == n[1]
        e  == n[2]
        d  == NumDigits(m)
        se == e + d - 1
        lead9 == IF d <= 9 THEN m * Pow10(9 - d) ELSE m \div Pow10(d - 9)
    IN  IF m # 0 /\ (se > 308 \/ (se = 308 /\ lead9 > 179769313))
        THEN Infinity(neg)
        ELSE IF m = 0 \/ se < -324
        THEN [kind |-> "num", neg |-> neg, mant |-> 0, exp |-> 0]
        ELSE [kind |-> "num", neg |-> neg, mant |-> m, exp |-> e]

RECURSIVE DigitPrefixLen(_)
DigitPrefixLen(s) ==
    IF s # <<>> /\ Head(s) \in AsciiDigits
    THEN 1 + DigitPrefixLen(Tail(s))
    ELSE 0

RECURSIVE DigitsToNat(_)
DigitsToNat(s) ==
    IF s = <<>> THEN 0
    ELSE 10 * DigitsToNat(SubSeq(s, 1, Len(s) - 1)) + DigitValue(s[Len(s)])

Drop(s, n) == SubSeq(s, n + 1, Len(s))

\* dec2flt's parse_number: Digit+ | Digit+ '.' Digit* | Digit* '.' Digit+,
\* then an optional exponent ('e' | 'E') Sign? Digit+, and nothing after it.
ParseNumber(s) ==
    LET i      == DigitPrefixLen(s)
        a1     == Drop(s, i)
        hasDot == a1 # <<>> /\ Head(a1) = "."
        f      == IF hasDot THEN DigitPrefixLen(Tail(a1)) ELSE 0
        a2     == IF hasDot THEN Drop(Tail(a1), f) ELSE a1
        hasExp == a2 # <<>> /\ Head(a2) \in {"e", "E"}
        t      == IF hasExp THEN Tail(a2) ELSE <<>>
        eneg   == t # <<>> /\ Head(t) = "-"
        t2     == IF t # <<>> /\ Head(t) \in {"+", "-"} THEN Tail(t) ELSE t
        k      == DigitPrefixLen(t2)
        rest   == IF hasExp THEN Drop(t2, k) ELSE a2
        e      == IF hasExp THEN DigitsToNat(SubSeq(t2, 1, k)) ELSE 0
        mant   == DigitsToNat(SubSeq(s, 1, i)
                      \o (IF hasDot THEN SubSeq(Tail(a1), 1, f) ELSE <<>>))
    IN  IF i + f = 0 \/ (hasExp /\ k = 0) \/ rest # <<>>
        THEN [ok |-> FALSE, mant |-> 0, exp |-> 0]
        ELSE [ok |-> TRUE, mant |-> mant,
              exp |-> (IF eneg THEN 0 - e ELSE e) - f]

ParseOk(v) == [ok |-> TRUE, value |-> v, error |-> "none"]
ParseErr(kind) == [ok |-> FALSE, value |-> NaN(FALSE), error |-> kind]

\* str::parse::<f64>: "Empty" is ParseFloatError "cannot parse float from
\* empty string", "Invalid" is "invalid float literal".
ParseF64(s) ==
    IF s = <<>> THEN ParseErr("Empty")
    ELSE
        LET neg  == Head(s) = "-"
            rest == IF Head(s) \in {"+", "-"} THEN Tail(s) ELSE s
            num  == ParseNumber(rest)
            low  == ToLowercase(rest)
        IN  IF rest = <<>> THEN ParseErr("Invalid")
            ELSE IF num.ok THEN ParseOk(Finite(neg, num.mant, num.exp))
            ELSE IF low = <<"n", "a", "n">> THEN ParseOk(NaN(neg))
            ELSE IF low \in {<<"i", "n", "f">>,
                             <<"i", "n", "f", "i", "n", "i", "t", "y">>}
            THEN ParseOk(Infinity(neg))
            ELSE ParseErr("Invalid")

(* ------------------------------------------------------------------ *)
(* f64 arithmetic. A result is computed where it is an integer of      *)
(* fewer than ten digits, or decided by the IEEE-754 rules for NaN,    *)
(* infinities and zeros; any other result is Rounded: the correctly    *)
(* rounded f64 of the operation on the two operands, left opaque.      *)
(* ------------------------------------------------------------------ *)

Rounded == [kind |-> "rounded", neg |-> FALSE, mant |-> 0, exp |-> 0]
Zero(neg) == [kind |-> "num", neg |-> neg, mant |-> 0, exp |-> 0]
One == [kind |-> "num", neg |-> FALSE, mant |-> 1, exp |-> 0]

IsNaN(v) == v.kind = "nan"
IsInf(v) == v.kind = "inf"
IsZero(v) == v.kind = "num" /\ v.mant = 0

\* The != of f64: NaN differs from everything, 0.0 equals -0.0.
F64Ne(a, b) ==
    \/ IsNaN(a) \/ IsNaN(b)
    \/ /\ ~(IsZero(a) /\ IsZero(b))
       /\ a # b

SmallInt(v) == v.kind = "num" /\ v.exp >= 0 /\ NumDigits(v.mant) + v.exp <= 4
IntOf(v) == (IF v.neg THEN -1 ELSE 1) * v.mant * Pow10(v.exp)
FromInt(n) == IF n < 0 THEN Finite(TRUE, 0 - n, 0) ELSE Finite(FALSE, n, 0)
Negate(v) == [v EXCEPT !.neg = ~v.neg]

FAdd(l, r) ==
    IF IsNaN(l) \/ IsNaN(r) THEN NaN(FALSE)
    ELSE IF IsInf(l) /\ IsInf(r)
    THEN (IF l.neg = r.neg THEN l ELSE NaN(FALSE))
    ELSE IF IsInf(l) THEN l
    ELSE IF IsInf(r) THEN r
    ELSE IF IsZero(l) /\ IsZero(r) THEN Zero(l.neg /\ r.neg)
    ELSE IF SmallInt(l) /\ SmallInt(r) THEN FromInt(IntOf(l) + IntOf(r))
    ELSE Rounded

FSub(l, r) == FAdd(l, Negate(r))

FMul(l, r) ==
    IF IsNaN(l) \/ IsNaN(r) THEN NaN(FALSE)
    ELSE IF (IsInf(l) /\ IsZero(r)) \/ (IsZero(l) /\ IsInf(r)) THEN NaN(FALSE)
    ELSE IF IsInf(l) \/ IsInf(r) THEN Infinity(l.neg # r.neg)
    ELSE IF SmallInt(l) /\ SmallInt(r)
    THEN Finite(l.neg # r.neg, l.mant * Pow10(l.exp) * r.mant * Pow10(r.exp), 0)
    ELSE Rounded

FDiv(l, r) ==
    IF IsNaN(l) \/ IsNaN(r) THEN NaN(FALSE)
    ELSE IF (IsInf(l) /\ IsInf(r)) \/ (IsZero(l) /\ IsZero(r)) THEN NaN(FALSE)
    ELSE IF IsInf(l) \/ IsZero(r) THEN Infinity(l.neg # r.neg)
    ELSE IF IsInf(r) THEN Zero(l.neg # r.neg)
    ELSE IF SmallInt(l) /\ SmallInt(r)
            /\ (l.mant * Pow10(l.exp)) % (r.mant * Pow10(r.exp)) = 0
    THEN Finite(l.neg # r.neg,
                (l.mant * Pow10(l.exp)) \div (r.mant * Pow10(r.exp)), 0)
    ELSE Rounded

\* b^e for naturals, or -1 once it has ten digits or more.
RECURSIVE NatPow(_, _)
NatPow(b, e) ==
    IF e = 0 THEN 1
    ELSE LET q == NatPow(b, e - 1)
         IN  IF q < 0 \/ q * b >= 1000000000 THEN -1 ELSE q * b

\* f64::powf: powf(x, 0) and powf(1, y) are 1 whatever the other operand.
FPow(l, r) ==
    IF IsZero(r) \/ l = One THEN One
    ELSE IF IsNaN(l) \/ IsNaN(r) THEN NaN(FALSE)
    ELSE IF SmallInt(l) /\ SmallInt(r) /\ ~r.neg /\ IntOf(r) <= 32
            /\ NatPow(l.mant * Pow10(l.exp), IntOf(r)) >= 0
    THEN Finite(l.neg /\ IntOf(r) % 2 = 1,
                NatPow(l.mant * Pow10(l.exp), IntOf(r)), 0)
    ELSE Rounded

(* ------------------------------------------------------------------ *)
(* Operation.                                                          *)
(* ------------------------------------------------------------------ *)

Operations == {"Add", "Subtract", "Multiply", "Divide", "Exponential"}

OperationOk(op) == [ok |-> TRUE, value |-> op, error |-> "none"]
OperationErr == [ok |-> FALSE, value |-> "none", error |-> "InvalidOperator"]

\* Operation::from_str as it would be if it took the division sign for '/'.
OperationFromStrDivisionSign(s) ==
    CASE s = <<"+">> -> OperationOk("Add")
      [] s = <<"-">> -> OperationOk("Subtract")
      [] s = <<"*">> -> OperationOk("Multiply")
      [] s \in {<<"/">>, <<"u00F7">>} -> OperationOk("Divide")
      [] s = <<"^">> -> OperationOk("Exponential")
      [] OTHER -> OperationErr

\* <Operation as FromStr>::from_str; the error is the message
\* "Invalid operator. Supported operators: + - * / ^".
OperationFromStr(s) ==
    CASE s = <<"+">> -> OperationOk("Add")
      [] s = <<"-">> -> OperationOk("Subtract")
      [] s = <<"*">> -> OperationOk("Multiply")
      [] s = <<"/">> -> OperationOk("Divide")
      [] s = <<"^">> -> OperationOk("Exponential")
      [] OTHER -> OperationErr

\* Operation::fmt as it would be if Exponential were written "**".
OperationFmtStars(op) ==
    CASE op = "Add" -> <<"+">>
      [] op = "Subtract" -> <<"-">>
      [] op = "Multiply" -> <<"*">>
      [] op = "Divide" -> <<"/">>
      [] op = "Exponential" -> <<"*", "*">>

\* <Operation as Display>::fmt
OperationFmt(op) ==
    CASE op = "Add" -> <<"+">>
      [] op = "Subtract" -> <<"-">>
      [] op = "Multiply" -> <<"*">>
      [] op = "Divide" -> <<"/">>
      [] op = "Exponential" -> <<"^">>

(* ------------------------------------------------------------------ *)
(* Expression.                                                         *)
(* ------------------------------------------------------------------ *)

NoExpression == [lhs |-> NaN(FALSE), rhs |-> NaN(FALSE), operation |-> "none"]

EvalOk(v) == [ok |-> TRUE, value |-> v, error |-> "none"]
EvalErr == [ok |-> FALSE, value |-> NaN(FALSE), error |-> "DivideByZero"]

\* Expression::evaluate as it would be without the guard of the Divide arm.
EvaluateUnguarded(self) ==
    CASE self.operation = "Add" -> EvalOk(FAdd(self.lhs, self.rhs))
      [] self.operation = "Subtract" -> EvalOk(FSub(self.lhs, self.rhs))
      [] self.operation = "Multiply" -> EvalOk(FMul(self.lhs, self.rhs))
      [] self.operation = "Exponential" -> EvalOk(FPow(self.lhs, self.rhs))
      [] self.operation = "Divide" -> EvalOk(FDiv(self.lhs, self.rhs))

\* Expression::evaluate; the error is "Divide by zero error".
Evaluate(self) ==
    CASE self.operation = "Add" -> EvalOk(FAdd(self.lhs, self.rhs))
      [] self.operation = "Subtract" -> EvalOk(FSub(self.lhs, self.rhs))
      [] self.operation = "Multiply" -> EvalOk(FMul(self.lhs, self.rhs))
      [] self.operation = "Exponential" -> EvalOk(FPow(self.lhs, self.rhs))
      [] self.operation = "Divide" /\ F64Ne(self.rhs, Zero(FALSE)) ->
            EvalOk(FDiv(self.lhs, self.rhs))
      [] self.operation = "Divide" /\ ~F64Ne(self.rhs, Zero(FALSE)) -> EvalErr

\* The Result of Expression::from_str. The Err is a message: kind names its
\* prefix ("Failed to parse left hand side: ", "Failed to parse operation: ",
\* "Failed to parse right hand side: ") and detail what follows it.
FromStrOk(e) == [ok |-> TRUE, value |-> e, kind |-> "none", detail |-> "none"]
FromStrErr(kind, detail) ==
    [ok |-> FALSE, value |-> NoExpression, kind |-> kind, detail |-> detail]

\* The first loop as it would be if it trimmed the ends only.
StripEndsOnly(original_str) == Trim(original_str)

\* The first loop of from_str: the characters that are not whitespace.
StripWhitespace(original_str) ==
    SelectSeq(original_str, LAMBDA c : ~IsWhitespace(c))

\* The condition as it would be if a minus sign belonged to lhs.
IsLhsCharSigned(c) == IsDigit(c, Radix) \/ c \in {".", "-"}

\* The condition as it would be if an exponent letter belonged to lhs.
IsLhsCharExponent(c) == IsDigit(c, Radix) \/ c \in {".", "e", "E"}

\* The condition of the second loop: the character belongs to lhs.
IsLhsChar(c) == IsDigit(c, Radix) \/ c = "."

RECURSIVE LhsRunLen(_)
LhsRunLen(s) ==
    IF s # <<>> /\ IsLhsChar(Head(s)) THEN 1 + LhsRunLen(Tail(s)) ELSE 0

\* The second loop of from_str: lhs is the leading run of digits and '.';
\* current_index is the index of the character that ended the run, and is
\* left at 0 when the loop ran off the end of string.
ScanLhs(str) ==
    LET n == LhsRunLen(str)
    IN  [lhs |-> SubSeq(str, 1, n),
         current_index |-> IF n < Len(str) THEN n ELSE 0]

\* string.chars().nth(n), n counted in characters from 0.
CharsNth(str, n) ==
    IF n < Len(str) THEN [some |-> TRUE, character |-> str[n + 1]]
    ELSE [some |-> FALSE, character |-> ""]

(* ------------------------------------------------------------------ *)
(* Input lines.                                                        *)
(* ------------------------------------------------------------------ *)

\* The characters every line of at most MaxLen characters is built from.
Alphabet == {"0", "1", ".", "+", "-", "/", "e", " ", "u00F7"}

BoundedSeq(S, n) == UNION {[1..k -> S] : k \in 0..n}

Examples ==
    { <<"3", "+", "4">>,
      <<" ", "3", " ", "+", " ", "4", " ">>,
      <<"3", " ", "+", "u3000", "4", "\t">>,
      <<"2", "^", "1", "0">>,
      <<"1", "0", "/", "0">>,
      <<"a", "b", "c", "+", "4">>,
      <<"5">>,
      <<"5", "+">>,
      <<"-", "5", "+", "3">>,
      <<"3", "*", "4">>,
      <<"1", ".", "5", "*", "2">>,
      <<"7", "-", "9">>,
      <<"1", "/", "n", "a", "n">>,
      <<"2", "^", "I", "n", "f">>,
      <<"2", "*", "-", "i", "n", "f", "i", "n", "i", "t", "y">>,
      <<"1", "+", "1", "E", "3">>,
      <<"1", "e", "3", "+", "1">>,
      <<"1", "/", "1", "e", "-", "9", "9", "9">>,
      <<"1", "/", "-", "0", ".", "0">>,
      <<"1", ".", ".", "2", "+", "1">>,
      <<"u0663", "+", "1">>,
      <<"1", "u00F7", "1">>,
      <<"1", "+", "u0663">>,
      <<"2", "=", "2">>,
      <<"1", "_", "0", "+", "1">>,
      <<"e", "x", "i", "t">>,
      <<"E", "X", "I", "T">>,
      <<" ", "E", "x", "i", "t", "\t">>,
      <<"e", "x", "i", "t", "1">>,
      <<"e", "x", " ", "i", "t">> }

Lines == BoundedSeq(Alphabet, MaxLen) \cup Examples

\* The tokens Operation::from_str is tried on.
Tokens == BoundedSeq(Chars, MaxTokenLen)

(* ------------------------------------------------------------------ *)
(* State.                                                              *)
(* ------------------------------------------------------------------ *)

VARIABLES
    pc,             \* the statement about to run
    input,          \* main's input, and from_str's original_str
    string,         \* from_str: original_str without its whitespace
    lhs,            \* from_str: the left token
    current_index,  \* from_str: the operator's index, then the index after it
    parsed_lhs,     \* from_str: lhs once it is an f64
    operation,      \* from_str: the parsed Operation
    result,         \* what from_str returned
    expression,     \* the Expression evaluate runs on
    evaluated,      \* what evaluate returned
    previous,       \* what from_str returned for the line before this one
    printed,        \* the last thing written to stdout or stderr
    status,         \* how the process ended, "running" until it does
    token,          \* the argument of a direct call of Operation::from_str
    parsed_token,   \* what that call returned
    shown           \* Display of the Operation it returned

vars ==
    <<pc, input, string, lhs, current_index, parsed_lhs, operation, result,
      expression, evaluated, previous, printed, status, token, parsed_token,
      shown>>

locals == <<string, lhs, current_index, parsed_lhs, operation>>
operationVars == <<token, parsed_token, shown>>

NoResult == FromStrErr("none", "none")
NoEvaluation == [ok |-> FALSE, value |-> NaN(FALSE), error |-> "none"]
NoPrevious == [set |-> FALSE, result |-> NoResult]
NoParsedToken == [ok |-> FALSE, value |-> "none", error |-> "none"]

\* Every variable but pc and input before anything has run.
Fresh ==
    /\ string = <<>>
    /\ lhs = <<>>
    /\ current_index = 0
    /\ parsed_lhs = NaN(FALSE)
    /\ operation = "none"
    /\ result = NoResult
    /\ expression = NoExpression
    /\ evaluated = NoEvaluation
    /\ previous = NoPrevious
    /\ printed = "none"
    /\ status = "running"
    /\ token = <<>>
    /\ parsed_token = NoParsedToken
    /\ shown = <<>>

\* from_str's locals once it has returned.
DropLocals ==
    /\ string' = <<>>
    /\ lhs' = <<>>
    /\ current_index' = 0
    /\ parsed_lhs' = NaN(FALSE)
    /\ operation' = "none"

\* from_str returns r.
Return(r) ==
    /\ result' = r
    /\ pc' = "returned"
    /\ DropLocals

(* ------------------------------------------------------------------ *)
(* Expression::from_str, statement by statement.                       *)
(* ------------------------------------------------------------------ *)

\* Lines 81-88: string is original_str without whitespace.
FromStrStrip ==
    /\ pc = "from_str"
    /\ string' = StripWhitespace(input)
    /\ pc' = "scan"
    /\ UNCHANGED <<input, lhs, current_index, parsed_lhs, operation, result,
                   expression, evaluated, previous, printed, status,
                   operationVars>>

\* Lines 92-105: the scan for the left token.
FromStrScan ==
    /\ pc = "scan"
    /\ lhs' = ScanLhs(string).lhs
    /\ current_index' = ScanLhs(string).current_index
    /\ pc' = "parse_lhs"
    /\ UNCHANGED <<input, string, parsed_lhs, operation, result, expression,
                   evaluated, previous, printed, status, operationVars>>

\* Lines 106-113: lhs.parse::<f64>().
FromStrParseLhs ==
    /\ pc = "parse_lhs"
    /\ LET r == ParseF64(lhs)
       IN  IF r.ok
           THEN /\ parsed_lhs' = r.value
                /\ pc' = "parse_operation"
                /\ UNCHANGED <<string, lhs, current_index, operation, result>>
           ELSE Return(FromStrErr("InvalidLeftOperand", r.error))
    /\ UNCHANGED <<input, expression, evaluated, previous, printed, status,
                   operationVars>>

\* Lines 117-132 as they would be without current_index += 1.
FromStrParseOperationNoIncrement ==
    /\ pc = "parse_operation"
    /\ LET c == CharsNth(string, current_index)
           r == OperationFromStr(<<c.character>>)
       IN  IF ~c.some
           THEN Return(FromStrErr("MissingOperator", "none"))
           ELSE IF ~r.ok
           THEN Return(FromStrErr("InvalidOperator", "none"))
           ELSE /\ operation' = r.value
                /\ pc' = "parse_rhs"
                /\ UNCHANGED <<string, lhs, current_index, parsed_lhs, result>>
    /\ UNCHANGED <<input, expression, evaluated, previous, printed, status,
                   operationVars>>

\* Lines 117-132 as they would be if the right operand were parsed before
\* the operator.
FromStrParseOperationRhsFirst ==
    /\ pc = "parse_operation"
    /\ LET c == CharsNth(string, current_index)
           r == OperationFromStr(<<c.character>>)
           rhs == ParseF64(Drop(string, current_index + 1))
       IN  IF ~c.some
           THEN Return(FromStrErr("MissingOperator", "none"))
           ELSE IF ~rhs.ok
           THEN Return(FromStrErr("InvalidRightOperand", rhs.error))
           ELSE IF ~r.ok
           THEN Return(FromStrErr("InvalidOperator", "none"))
           ELSE /\ operation' = r.value
                /\ current_index' = current_index + 1
                /\ pc' = "parse_rhs"
                /\ UNCHANGED <<string, lhs, parsed_lhs, result>>
    /\ UNCHANGED <<input, expression, evaluated, previous, printed, status,
                   operationVars>>

\* Lines 117-132: the character at current_index parsed as an Operation,
\* then current_index += 1.
FromStrParseOperation ==
    /\ pc = "parse_operation"
    /\ LET c == CharsNth(string, current_index)
           r == OperationFromStr(<<c.character>>)
       IN  IF ~c.some
           THEN Return(FromStrErr("MissingOperator", "none"))
           ELSE IF ~r.ok
           THEN Return(FromStrErr("InvalidOperator", "none"))
           ELSE /\ operation' = r.value
                /\ current_index' = current_index + 1
                /\ pc' = "parse_rhs"
                /\ UNCHANGED <<string, lhs, parsed_lhs, result>>
    /\ UNCHANGED <<input, expression, evaluated, previous, printed, status,
                   operationVars>>

\* Lines 135-140: string[current_index..].parse::<f64>(). The slice panics
\* when current_index is past the end of string or inside a character.
FromStrParseRhs ==
    /\ pc = "parse_rhs"
    /\ IF current_index > ByteLen(string)
          \/ ~IsCharBoundary(string, current_index)
       THEN /\ pc' = "panicked"
            /\ status' = "panic"
            /\ UNCHANGED <<locals, result>>
       ELSE /\ LET r == ParseF64(SliceFrom(string, current_index))
               IN  IF r.ok
                   THEN Return(FromStrOk([lhs |-> parsed_lhs,
                                          rhs |-> r.value,
                                          operation |-> operation]))
                   ELSE Return(FromStrErr("InvalidRightOperand", r.error))
            /\ UNCHANGED status
    /\ UNCHANGED <<input, expression, evaluated, previous, printed,
                   operationVars>>

FromStr ==
    \/ FromStrStrip
    \/ FromStrScan
    \/ FromStrParseLhs
    \/ FromStrParseOperation
    \/ FromStrParseRhs

\* Lines 55-65: expression.evaluate().
EvaluateStep ==
    /\ pc = "evaluate"
    /\ evaluated' = Evaluate(expression)
    /\ pc' = "match_evaluate"
    /\ UNCHANGED <<input, locals, result, expression, previous, printed,
                   status, operationVars>>

(* ------------------------------------------------------------------ *)
(* Expression::from_str and evaluate called on any line.               *)
(* ------------------------------------------------------------------ *)

Init ==
    /\ pc = "from_str"
    /\ input \in Lines
    /\ Fresh

\* The Expression from_str returned is evaluated.
CallEvaluate ==
    /\ pc = "returned"
    /\ result.ok
    /\ expression' = result.value
    /\ pc' = "evaluate"
    /\ UNCHANGED <<input, locals, result, evaluated, previous, printed,
                   status, operationVars>>

\* line with the whitespace character w put in after its first k characters.
InsertAt(line, k, w) ==
    SubSeq(line, 1, k) \o <<w>> \o SubSeq(line, k + 1, Len(line))

\* line without its k-th character.
RemoveAt(line, k) == SubSeq(line, 1, k - 1) \o SubSeq(line, k + 1, Len(line))

\* from_str is called again, on the line spaced differently: one whitespace
\* character is put in or taken out anywhere.
CallRespaced ==
    /\ pc = "returned"
    /\ \/ /\ Len(input) < MaxLen
          /\ \E k \in 0..Len(input), w \in WhitespaceChars :
                input' = InsertAt(input, k, w)
       \/ \E k \in 1..Len(input) :
             /\ IsWhitespace(input[k])
             /\ input' = RemoveAt(input, k)
    /\ previous' = [set |-> TRUE, result |-> result]
    /\ result' = NoResult
    /\ pc' = "from_str"
    /\ UNCHANGED <<locals, expression, evaluated, printed, status,
                   operationVars>>

Next ==
    \/ FromStr
    \/ CallEvaluate
    \/ EvaluateStep
    \/ CallRespaced

Spec == Init /\ [][Next]_vars

(* ------------------------------------------------------------------ *)
(* main: the loop of lines 16-43 around get_input.                     *)
(* ------------------------------------------------------------------ *)

Exit == <<"e", "x", "i", "t">>

\* What read_line can leave in the buffer: a line and its line feed, or at
\* the end of the input what is left of it, nothing included.
ReadLines == Lines \cup {line \o <<"\n">> : line \in Lines}

MainInit ==
    /\ pc = "get_input"
    /\ input = <<>>
    /\ Fresh

\* The bindings of an iteration of the loop, gone once it ends.
EndIteration ==
    /\ pc' = "get_input"
    /\ input' = <<>>
    /\ result' = NoResult
    /\ expression' = NoExpression
    /\ evaluated' = NoEvaluation

\* Lines 18 and 208-217: the prompt is written and a line read and trimmed;
\* an io::Error of the write, the flush or the read leaves main through `?`.
GetInput ==
    /\ pc = "get_input"
    /\ \/ /\ \E line \in ReadLines : input' = Trim(line)
          /\ printed' = "prompt"
          /\ pc' = "check_exit"
          /\ UNCHANGED status
       \/ /\ pc' = "exited"
          /\ status' = "io_error"
          /\ UNCHANGED <<input, printed>>
    /\ UNCHANGED <<locals, result, expression, evaluated, previous,
                   operationVars>>

\* Lines 21-27: "exit" in any case ends the loop; any other line is parsed.
CheckExit ==
    /\ pc = "check_exit"
    /\ IF ToLowercase(input) = Exit
       THEN /\ printed' = "Goodbye!"
            /\ pc' = "exited"
            /\ status' = "ok"
       ELSE /\ pc' = "from_str"
            /\ UNCHANGED <<printed, status>>
    /\ UNCHANGED <<input, locals, result, expression, evaluated, previous,
                   operationVars>>

\* Lines 27-33: the match on what parse returned; the Err arm reports the
\* error and continues with the next iteration.
MatchParse ==
    /\ pc = "returned"
    /\ IF result.ok
       THEN /\ expression' = result.value
            /\ pc' = "evaluate"
            /\ UNCHANGED <<input, result, evaluated, printed>>
       ELSE /\ printed' = "Invalid input"
            /\ EndIteration
    /\ UNCHANGED <<locals, previous, status, operationVars>>

\* Lines 36-42 as they would be if the error of evaluate left main, as the
\* error of get_input does.
MatchEvaluatePropagate ==
    /\ pc = "match_evaluate"
    /\ IF evaluated.ok
       THEN /\ printed' = "result"
            /\ EndIteration
            /\ UNCHANGED status
       ELSE /\ pc' = "exited"
            /\ status' = "error"
            /\ UNCHANGED <<input, result, expression, evaluated, printed>>
    /\ UNCHANGED <<locals, previous, operationVars>>

\* Lines 36-42: the match on what evaluate returned; either arm ends the
\* iteration.
MatchEvaluate ==
    /\ pc = "match_evaluate"
    /\ printed' = IF evaluated.ok THEN "result"
                  ELSE "Error evaluating expression"
    /\ EndIteration
    /\ UNCHANGED <<locals, previous, status, operationVars>>

MainNext ==
    \/ GetInput
    \/ CheckExit
    \/ FromStr
    \/ MatchParse
    \/ EvaluateStep
    \/ MatchEvaluate

MainSpec == MainInit /\ [][MainNext]_vars

(* ------------------------------------------------------------------ *)
(* Operation::from_str called on any token, and the result displayed.  *)
(* ------------------------------------------------------------------ *)

OperationInit ==
    /\ pc = "operation_from_str"
    /\ input = <<>>
    /\ string = <<>>
    /\ lhs = <<>>
    /\ current_index = 0
    /\ parsed_lhs = NaN(FALSE)
    /\ operation = "none"
    /\ result = NoResult
    /\ expression = NoExpression
    /\ evaluated = NoEvaluation
    /\ previous = NoPrevious
    /\ printed = "none"
    /\ status = "running"
    /\ token \in Tokens
    /\ parsed_token = NoParsedToken
    /\ shown = <<>>

OperationParse ==
    /\ pc = "operation_from_str"
    /\ parsed_token' = OperationFromStr(token)
    /\ pc' = "operation_returned"
    /\ UNCHANGED <<input, locals, result, expression, evaluated, previous,
                   printed, status, token, shown>>

OperationDisplay ==
    /\ pc = "operation_returned"
    /\ parsed_token.ok
    /\ shown' = OperationFmt(parsed_token.value)
    /\ pc' = "operation_shown"
    /\ UNCHANGED <<input, locals, result, expression, evaluated, previous,
                   printed, status, token, parsed_token>>

OperationNext == OperationParse \/ OperationDisplay

OperationSpec == OperationInit /\ [][OperationNext]_vars

(* ------------------------------------------------------------------ *)
(* The properties checked.                                             *)
(* ------------------------------------------------------------------ *)

\* The line without its whitespace.
Stripped == SelectSeq(input, LAMBDA c : c \notin WhitespaceChars)

NumericChars == AsciiDigits \cup {"."}

\* The length of the maximal leading run of digits and '.' of s.
RunLength(s) ==
    CHOOSE n \in 0..Len(s) :
        /\ \A k \in 1..n : s[k] \in NumericChars
        /\ n = Len(s) \/ s[n + 1] \notin NumericChars

LeftToken == SubSeq(Stripped, 1, RunLength(Stripped))
HasOperatorChar == RunLength(Stripped) < Len(Stripped)
OperatorChar == Stripped[RunLength(Stripped) + 1]
RightToken == SubSeq(Stripped, RunLength(Stripped) + 2, Len(Stripped))

\* float := digits with an optional single '.', and a digit at least.
IsDecimal(s) ==
    /\ \A k \in 1..Len(s) : s[k] \in NumericChars
    /\ Cardinality({k \in 1..Len(s) : s[k] = "."}) <= 1
    /\ \E k \in 1..Len(s) : s[k] \in AsciiDigits

\* ('e' | 'E') Sign? Digit+
IsExponent(s) ==
    /\ s # <<>>
    /\ s[1] \in {"e", "E"}
    /\ \E from \in 2..3 :
          /\ from = 3 => Len(s) >= 2 /\ s[2] \in {"+", "-"}
          /\ from <= Len(s)
          /\ \A k \in from..Len(s) : s[k] \in AsciiDigits

\* The literals str::parse::<f64> accepts: an optional sign, then a decimal
\* with an optional exponent, or inf, infinity or nan in any case.
IsF64Literal(s) ==
    \E from \in 1..2 :
        /\ from = 2 => s # <<>> /\ s[1] \in {"+", "-"}
        /\ LET body == SubSeq(s, from, Len(s))
           IN  \/ ToLowercase(body) \in
                     { <<"n", "a", "n">>, <<"i", "n", "f">>,
                       <<"i", "n", "f", "i", "n", "i", "t", "y">> }
               \/ \E k \in 1..Len(body) :
                     /\ IsDecimal(SubSeq(body, 1, k))
                     /\ k = Len(body) \/ IsExponent(SubSeq(body, k + 1, Len(body)))

OperationOfChar(c) ==
    CASE c = "+" -> "Add" [] c = "-" -> "Subtract" [] c = "*" -> "Multiply"
      [] c = "/" -> "Divide" [] c = "^" -> "Exponential" [] OTHER -> "none"

Number(n) == [kind |-> "num", neg |-> FALSE, mant |-> n, exp |-> 0]

\* C1: a line whose stripped text is not empty, is made of digits and '.'
\* only and is a valid float literal fails with MissingOperator.
C1_MissingOperator ==
    (pc = "returned" /\ Stripped # <<>> /\ IsDecimal(Stripped))
        => (~result.ok /\ result.kind = "MissingOperator")

\* C2: evaluate fails exactly when the operator is Divide and right is zero,
\* and then with DivideByZero; otherwise it returns left + right, left - right,
\* left * right, left / right or left ^ right.
C2_EvaluateTotalButZeroDivisor ==
    pc = "match_evaluate" =>
        LET l == expression.lhs
            r == expression.rhs
            zeroDivisor == expression.operation = "Divide"
                               /\ r.kind = "num" /\ r.mant = 0
        IN  /\ ~evaluated.ok <=> zeroDivisor
            /\ ~evaluated.ok => evaluated.error = "DivideByZero"
            /\ evaluated.ok =>
                  evaluated.value =
                      CASE expression.operation = "Add" -> FAdd(l, r)
                        [] expression.operation = "Subtract" -> FSub(l, r)
                        [] expression.operation = "Multiply" -> FMul(l, r)
                        [] expression.operation = "Divide" -> FDiv(l, r)
                        [] expression.operation = "Exponential" -> FPow(l, r)

C2_Witness ==
    /\ pc = "match_evaluate"
    /\ expression.operation = "Divide"
    /\ expression.rhs.kind = "num" /\ expression.rhs.mant = 0
    /\ expression.rhs.neg
    /\ ~evaluated.ok

\* C3: from_str returns the same for a line and for the same line with a
\* whitespace character put in or taken out anywhere, and so for any two
\* lines that are the same text once their whitespace is removed.
C3_WhitespaceInsensitive ==
    (pc = "returned" /\ previous.set) => result = previous.result

C3_Witness ==
    /\ pc = "returned"
    /\ previous.set
    /\ result.ok
    /\ \E k \in 2..(Len(input) - 1) :
          /\ IsWhitespace(input[k])
          /\ ~IsWhitespace(input[1])
          /\ ~IsWhitespace(input[Len(input)])

\* C4: Operation::from_str succeeds exactly for the tokens + - * / ^, any
\* other token fails with InvalidOperator, and Display of the Operation it
\* returns is the token again.
C4_OperatorRoundTrip ==
    /\ pc \in {"operation_returned", "operation_shown"} =>
          /\ parsed_token.ok <=> (Len(token) = 1 /\ token[1] \in OperatorChars)
          /\ ~parsed_token.ok => parsed_token.error = "InvalidOperator"
    /\ pc = "operation_shown" => shown = token

C4_Witness ==
    /\ pc = "operation_shown"
    /\ token = <<"^">>
    /\ parsed_token.value = "Exponential"

\* C5: when from_str succeeds the stripped text is L, an operator character
\* and R, with L the maximal leading run of digits and '.' and R all the
\* rest, and the Expression holds float(L), the Operation of the character
\* and float(R): 3+4 is Expression{3, 4, Add} and evaluates to 7, 2^10 is
\* Expression{2, 10, Exponential} and evaluates to 1024.
C5_SplitAtFirstNonDigit ==
    /\ (pc \in {"returned", "evaluate", "match_evaluate"} /\ result.ok) =>
          /\ HasOperatorChar
          /\ OperatorChar \in OperatorChars
          /\ result.value.operation = OperationOfChar(OperatorChar)
          /\ ParseF64(LeftToken).ok
          /\ result.value.lhs = ParseF64(LeftToken).value
          /\ ParseF64(RightToken).ok
          /\ result.value.rhs = ParseF64(RightToken).value
    /\ (pc = "match_evaluate" /\ input = <<"3", "+", "4">>) =>
          /\ expression =
                [lhs |-> Number(3), rhs |-> Number(4), operation |-> "Add"]
          /\ evaluated = EvalOk(Number(7))
    /\ (pc = "match_evaluate" /\ input = <<"2", "^", "1", "0">>) =>
          /\ expression =
                [lhs |-> Number(2),
                 rhs |-> [kind |-> "num", neg |-> FALSE, mant |-> 1, exp |-> 1],
                 operation |-> "Exponential"]
          /\ evaluated = EvalOk(Number(1024))

C5_Witness ==
    /\ pc = "match_evaluate"
    /\ input = <<"2", "^", "1", "0">>
    /\ evaluated.ok

C7_LeadingNonDigit ==
    (pc = "returned" /\ Stripped # <<>> /\ Stripped[1] \notin NumericChars)
        => /\ ~result.ok
           /\ result.kind = "InvalidLeftOperand"
           /\ result.detail = "Empty"

C7_Witness ==
    /\ pc = "returned"
    /\ input = <<"-", "5", "+", "3">>
    /\ result.kind = "InvalidLeftOperand"

\* C8 as claimed: an accepted line is float operator float, each float made
\* of digits and at most one '.'.
C8_BothOperandsPlainDecimals ==
    (pc = "returned" /\ result.ok) =>
        /\ IsDecimal(LeftToken)
        /\ HasOperatorChar /\ OperatorChar \in OperatorChars
        /\ IsDecimal(RightToken)

\* C8 as amended: an accepted line is float operator literal, where float is
\* made of digits and at most one '.', and literal is anything
\* str::parse::<f64> accepts: it may have a sign and an exponent, and may be
\* inf, infinity or nan.
C8_RightOperandAnyF64Literal ==
    (pc = "returned" /\ result.ok) =>
        /\ IsDecimal(LeftToken)
        /\ HasOperatorChar /\ OperatorChar \in OperatorChars
        /\ IsF64Literal(RightToken)

C8_Witness ==
    /\ pc = "returned"
    /\ result.ok
    /\ \E k \in 1..Len(RightToken) : RightToken[k] \notin NumericChars

\* C9: the first failing step is the one reported, in the order left
\* operand, operator, right operand.
C9_FirstFailureReported ==
    pc = "returned" =>
        /\ ~IsDecimal(LeftToken) =>
              (~result.ok /\ result.kind = "InvalidLeftOperand")
        /\ (IsDecimal(LeftToken) /\ HasOperatorChar
                /\ OperatorChar \notin OperatorChars) =>
              (~result.ok /\ result.kind = "InvalidOperator")
        /\ result.kind = "InvalidRightOperand" =>
              /\ IsDecimal(LeftToken)
              /\ HasOperatorChar /\ OperatorChar \in OperatorChars
              /\ ~IsF64Literal(RightToken)

C9_Witness ==
    /\ pc = "returned"
    /\ result.kind = "InvalidOperator"
    /\ HasOperatorChar
    /\ ~IsF64Literal(RightToken)

\* C10: where from_str slices string[current_index..], current_index is at
\* most the length of string in bytes and on a character boundary: from_str
\* never panics.
C10_SliceInBounds ==
    /\ pc = "parse_rhs" =>
          /\ current_index <= ByteLen(string)
          /\ IsCharBoundary(string, current_index)
    /\ pc # "panicked"

C10_Witness ==
    /\ pc = "parse_rhs"
    /\ \E k \in 1..Len(string) : LenUtf8(string[k]) > 1

====
